---- MODULE Spec2Model ----
(***************************************************************************)
(* DreamSculpt: the scene renderer (DreamRenderer, src/unnamed/part_004)   *)
(* and the gesture dispatcher (CameraActionManager with the built-in       *)
(* actions of src/services/defaultCameraActions.ts).                       *)
(*                                                                         *)
(* Units.  Floating-point quantities of the source are held as integers:   *)
(*   time            ticks of 1/2 s   (10 s = 20 ticks, 2.5 s = 5 ticks)   *)
(*   currentPoints   1/20 point       (rate * delta = target * ticks / 20) *)
(*   opacity         1/125            (smoothstep of progress k/5)         *)
(*   rig yaw, pitch  micro-radians                                         *)
(*   rig dolly       1e-6 world units along the view direction             *)
(*   hand centre     1/200 of the normalised screen                        *)
(*   NDC             1/100            (2x-1 of a centre c is c - 100)      *)
(*   mesh x, y       1/2 world unit   (100 * centre delta)                 *)
(*   mesh z, worldZ  1/40 world unit  (FORWARD_SPEED = 0.025)              *)
(*   point size      1/1000                                                *)
(*   pointing angle  degrees          (Math.PI is 180)                      *)
(***************************************************************************)
EXTENDS Integers, Sequences, FiniteSets, TLC

\* ---------------------------------------------------------------- bounds
MaxLifeMeshes == 1    \* SpecLife: point-cloud meshes created or loading
MaxLifeFrames == 3    \* SpecLife: animate() frames
MaxManip == 1         \* SpecLife: direct manipulateObject calls
MaxPickMeshes == 2    \* SpecPick: point-cloud meshes created
MaxPickFrames == 3    \* SpecPick: animate() frames
MaxFadeFrames == 6    \* SpecFade: animate() frames
MaxEnv == 3           \* SpecFade: setSkyAndTerrain calls
MaxCamera == 2        \* SpecCamera: direct dollyCamera calls
MaxProcess == 2       \* SpecManager: process() calls
MaxRevealFrames == 5  \* SpecReveal: animate() frames
MaxLoadMeshes == 3    \* SpecLoad: meshes created plus loads in flight
MaxHandCalls == 3     \* SpecHands: process() calls
MaxManipCalls == 2    \* SpecManip: manipulateObject calls
MaxNavCalls == 3      \* SpecNav: process() calls
MaxPoints == 2        \* maxPoints of a requested primitive
MaxScrollFrames == 6100  \* SpecScroll: animate() frames

\* ------------------------------------------------------ program constants
FORWARD_SPEED == 1
WORLD_Z_RESPAWN == 800
OBJECT_Z_WRAP == 6000
MATERIALIZE_DURATION == 20
DIFFUSE_PHASE_DURATION == 6
OBJECT_LIFETIME_MIN == 90
OBJECT_LIFETIME_MAX == 150
YAW_MAX == 1483530
YAW_MIN == -1483530
PITCH_MAX == 785398
PITCH_MIN == -785398
ORBIT_MAX_YAW_PER_FRAME == 40000
ORBIT_MAX_PITCH_PER_FRAME == 40000
DOLLY_MAX_PER_FRAME == 150000
POINT_SIZE == 40
TEXTURE_FADE_DURATION == 5
TRANSLATION_SPEED == 100

\* HIGHLIGHT_SIZE_MULT = 1.5, applied to a point size
HighlightSize(s) == (s * 3) \div 2
\* DIFFUSE_FRACTION = 0.1: Math.floor((1 - DIFFUSE_FRACTION) * count)
DiffuseStart(count) == (9 * count) \div 10
\* REMOVAL_PERCENT_PER_FRAME = 0.003: Math.ceil(targetPoints * 0.003)
RemovalCeil(target) == (3 * target + 999) \div 1000
\* TYPE_TO_PLY keys (a sample of them) and the synthetic primitives
PlyTypes == {"tree"}
PrimTypes == {"sphere", "gem"}

\* ------------------------------------------------------------- helpers
Max(a, b) == IF a >= b THEN a ELSE b
Min(a, b) == IF a <= b THEN a ELSE b
Abs(a) == IF a >= 0 THEN a ELSE -a
NULL == "null"
Undef == 0 - 1
Ids == {"a", "b"}

VARIABLES
  \* DreamRenderer
  objects,            \* Map id -> registry entry (Absent when no key)
  meshes,             \* every THREE.Points created, by handle (index)
  children,           \* movingWorld.children: handles in scene order
  selectedObjectId,
  yaw, pitch, dolly,  \* cameraRig.rotation.y, .x, position along the view axis
  worldZ,             \* worldGroup.position.z
  now,                \* clock elapsed time at the last reading
  sky, terrain,       \* current sky / terrain mesh with its material (handle)
  lastSky, lastTerrain, \* previous sky / terrain mesh with its material
  env,                \* every sky / terrain mesh created, by handle
  envInScene,         \* handles of the sky / terrain meshes in worldGroup
  textureFadeProgress,
  pending,            \* PLY loads in flight
  addPromise,         \* the promise returned by the latest addObjects call
  \* CameraActionManager
  actions, lastLeft, lastRight, lastTwoHandDistance, lastLeftAngle,
  \* observation
  lastOp,             \* the last query or process() call: inputs and results
  removed,            \* ids deleted by animate() and not added since
  nCalls              \* process(), camera and manipulate calls made

rvars == <<objects, meshes, children, selectedObjectId, yaw, pitch, dolly,
           worldZ, now, sky, terrain, lastSky, lastTerrain, env, envInScene,
           textureFadeProgress, pending, addPromise>>
mvars == <<actions, lastLeft, lastRight, lastTwoHandDistance, lastLeftAngle>>
vars == <<rvars, mvars, lastOp, removed, nCalls>>

\* lastOp after an operation that is observed through the state alone
Mutation == [op |-> "mutation"]

Absent == [mesh |-> Undef]

\* The renderer fields that the synchronous public operations read or write.
Rd == [objects |-> objects, meshes |-> meshes, children |-> children,
       selectedObjectId |-> selectedObjectId,
       yaw |-> yaw, pitch |-> pitch, dolly |-> dolly, calls |-> <<>>]

Has(r, id) == id \in Ids /\ r.objects[id] # Absent

\* ------------------------------------------------------- DreamRenderer
\* createPointCloudObject, from the point a geometry is at hand: pointCount
\* points, draw range 0, a new mesh appended to movingWorld, registry set.
CreateCloud(r, data, pointCount, t, lifetime) ==
  LET h == Len(r.meshes) + 1
      cloud == [id |-> data.id, x |-> data.x, y |-> data.y, z |-> data.z,
                rotY |-> 0, scale |-> <<1, 1>>, size |-> POINT_SIZE,
                points |-> pointCount, draw |-> 0, disposed |-> FALSE]
      entry == [mesh |-> h, targetPoints |-> pointCount, currentPoints |-> 0,
                loadedAt |-> t, lifetime |-> lifetime,
                removalStartedAt |-> Undef, visiblePoints |-> Undef,
                diffusionPhaseStartedAt |-> Undef,
                diffusingStartIndex |-> Undef,
                originalPositionsDiffuse |-> FALSE]
  IN [r EXCEPT !.meshes = Append(@, cloud),
               !.children = Append(@, h),
               !.objects = [@ EXCEPT ![data.id] = entry]]

\* translate assigns the position and does not add to it
manipulateObjectAssign(r, id, action, value) ==
  IF ~Has(r, id) THEN r
  ELSE LET h == r.objects[id].mesh IN
    CASE action = "translate" ->
           [r EXCEPT !.meshes[h].x = value.x, !.meshes[h].y = value.y]
      [] action = "rotate" -> [r EXCEPT !.meshes[h].rotY = @ + value]
      [] action = "scale" ->
           [r EXCEPT !.meshes[h].scale = <<@[1] * value[1], @[2] * value[2]>>]
      [] OTHER -> r

manipulateObject(r, id, action, value) ==
  IF ~Has(r, id) THEN r
  ELSE LET h == r.objects[id].mesh IN
    CASE action = "translate" ->
           [r EXCEPT !.meshes[h].x = @ + value.x, !.meshes[h].y = @ + value.y]
      [] action = "rotate" -> [r EXCEPT !.meshes[h].rotY = @ + value]
      [] action = "scale" ->
           [r EXCEPT !.meshes[h].scale = <<@[1] * value[1], @[2] * value[2]>>]
      [] OTHER -> r

\* orbitCamera with the per-call limit only: no range clamp on the rig angles
orbitCameraUnbounded(r, y, p) ==
  LET clampedYaw == Max(-ORBIT_MAX_YAW_PER_FRAME, Min(ORBIT_MAX_YAW_PER_FRAME, y))
      clampedPitch == Max(-ORBIT_MAX_PITCH_PER_FRAME, Min(ORBIT_MAX_PITCH_PER_FRAME, p))
  IN [r EXCEPT !.yaw = r.yaw + clampedYaw, !.pitch = r.pitch + clampedPitch]

orbitCamera(r, y, p) ==
  LET clampedYaw == Max(-ORBIT_MAX_YAW_PER_FRAME, Min(ORBIT_MAX_YAW_PER_FRAME, y))
      clampedPitch == Max(-ORBIT_MAX_PITCH_PER_FRAME, Min(ORBIT_MAX_PITCH_PER_FRAME, p))
  IN [r EXCEPT !.yaw = Max(YAW_MIN, Min(YAW_MAX, r.yaw + clampedYaw)),
               !.pitch = Max(PITCH_MIN, Min(PITCH_MAX, r.pitch + clampedPitch))]

\* addScaledVector with the requested delta itself
dollyCameraUnclamped(r, delta) == [r EXCEPT !.dolly = @ + delta]

dollyCamera(r, delta) ==
  LET clamped == Max(-DOLLY_MAX_PER_FRAME, Min(DOLLY_MAX_PER_FRAME, delta))
  IN [r EXCEPT !.dolly = @ + clamped]

\* a call that leaves the selection as it is
setSelectedObjectIdIgnored(r, id) == r

setSelectedObjectId(r, id) ==
  IF r.selectedObjectId = id THEN r
  ELSE
    LET r1 == IF r.selectedObjectId # NULL /\ Has(r, r.selectedObjectId)
              THEN [r EXCEPT !.meshes[r.objects[r.selectedObjectId].mesh].size
                                = POINT_SIZE]
              ELSE r
        r2 == [r1 EXCEPT !.selectedObjectId = id]
    IN IF id # NULL /\ Has(r2, id)
       THEN [r2 EXCEPT !.meshes[r2.objects[id].mesh].size
                          = HighlightSize(POINT_SIZE)]
       ELSE r2

\* Squared NDC distance of a projected child to the target of (nx, ny).
DistSq(p, nx, ny) ==
  LET targetX == (nx * 2 * 100) \div 200 - 100
      targetY == 100 - (ny * 2 * 100) \div 200
      dx == p[1] - targetX
      dy == p[2] - targetY
  IN dx * dx + dy * dy

\* The loop of findClosestObjectAtScreenPoint over children[1..k]: the pair
\* <<bestId, bestDistSq>>; bestDistSq = Undef stands for Infinity.
RECURSIVE ClosestLoop(_, _, _, _, _)
ClosestLoop(r, proj, nx, ny, k) ==
  IF k = 0 THEN <<NULL, Undef>>
  ELSE LET best == ClosestLoop(r, proj, nx, ny, k - 1)
           h == r.children[k]
           d2 == DistSq(proj[h], nx, ny)
       IN IF best[2] = Undef \/ d2 < best[2]
          THEN <<r.meshes[h].id, d2>>
          ELSE best

\* proj[h] is what child.getWorldPosition().project(camera) yields for mesh h.
findClosestObjectAtScreenPoint(r, proj, nx, ny) ==
  IF Len(r.children) = 0 THEN NULL
  ELSE ClosestLoop(r, proj, nx, ny, Len(r.children))[1]

\* triggerDiffuse that also takes the object out of removal
triggerDiffuseClearsRemoval(r, objectId) ==
  IF ~Has(r, objectId) THEN r
  ELSE LET h == r.objects[objectId].mesh IN
    [r EXCEPT !.objects[objectId].currentPoints = 0,
              !.objects[objectId].diffusionPhaseStartedAt = Undef,
              !.objects[objectId].diffusingStartIndex = Undef,
              !.objects[objectId].originalPositionsDiffuse = FALSE,
              !.objects[objectId].removalStartedAt = Undef,
              !.objects[objectId].visiblePoints = Undef,
              !.meshes[h].draw = 0]

triggerDiffuse(r, objectId) ==
  IF ~Has(r, objectId) THEN r
  ELSE LET h == r.objects[objectId].mesh IN
    [r EXCEPT !.objects[objectId].currentPoints = 0,
              !.objects[objectId].diffusionPhaseStartedAt = Undef,
              !.objects[objectId].diffusingStartIndex = Undef,
              !.objects[objectId].originalPositionsDiffuse = FALSE,
              !.meshes[h].draw = 0]

\* ---- animate(): one frame with clock delta d, the clock reading t after it

\* Phase 1, per object: e = [o |-> registry entry, draw |-> drawRange.count,
\* points |-> position attribute count].
\* Materialize without the Math.min cap at targetPoints
MaterializeUncapped(e, d) ==
  IF e.o.currentPoints < e.o.targetPoints * MATERIALIZE_DURATION
  THEN LET cur == e.o.currentPoints + e.o.targetPoints * d
       IN [e EXCEPT !.o.currentPoints = cur,
                    !.draw = cur \div MATERIALIZE_DURATION]
  ELSE e

\* currentPoints kept as a whole number of points
MaterializeWhole(e, d) ==
  IF e.o.currentPoints < e.o.targetPoints * MATERIALIZE_DURATION
  THEN LET cur == Min(e.o.targetPoints * MATERIALIZE_DURATION,
                      e.o.currentPoints + e.o.targetPoints * d)
           whole == (cur \div MATERIALIZE_DURATION) * MATERIALIZE_DURATION
       IN [e EXCEPT !.o.currentPoints = whole,
                    !.draw = whole \div MATERIALIZE_DURATION]
  ELSE e

Materialize(e, d) ==
  IF e.o.currentPoints < e.o.targetPoints * MATERIALIZE_DURATION
  THEN LET cur == Min(e.o.targetPoints * MATERIALIZE_DURATION,
                      e.o.currentPoints + e.o.targetPoints * d)
       IN [e EXCEPT !.o.currentPoints = cur,
                    !.draw = cur \div MATERIALIZE_DURATION]
  ELSE e

\* the diffusion phase started whether or not the object has settled
DiffuseStartedUnsettled(e, t) ==
  IF e.o.diffusionPhaseStartedAt = Undef
  THEN [e EXCEPT !.o.diffusionPhaseStartedAt = t,
                 !.o.diffusingStartIndex = DiffuseStart(e.o.targetPoints),
                 !.o.originalPositionsDiffuse = TRUE]
  ELSE e

\* Phase 2 and 3, per object.
DiffuseStarted(e, t) ==
  LET count == e.o.targetPoints
      settled == e.o.currentPoints >= count * MATERIALIZE_DURATION
  IN IF settled /\ e.o.diffusionPhaseStartedAt = Undef
     THEN [e EXCEPT !.o.diffusionPhaseStartedAt = t,
                    !.o.diffusingStartIndex = DiffuseStart(count),
                    !.o.originalPositionsDiffuse = TRUE]
     ELSE e

DiffuseEnds(e, t) ==
  /\ e.o.diffusionPhaseStartedAt # Undef
  /\ e.o.diffusingStartIndex # Undef
  /\ t - e.o.diffusionPhaseStartedAt >= DIFFUSE_PHASE_DURATION

\* Diffuse hiding every point, not only the diffused tail, when the phase ends
DiffuseHidesAll(e, t) ==
  IF e.points = 0 THEN e
  ELSE LET e1 == DiffuseStarted(e, t) IN
    IF e1.o.diffusionPhaseStartedAt = Undef \/ e1.o.diffusingStartIndex = Undef
    THEN e1
    ELSE IF DiffuseEnds(e1, t)
    THEN [e1 EXCEPT !.draw = 0,
                    !.o.diffusionPhaseStartedAt = Undef,
                    !.o.diffusingStartIndex = Undef,
                    !.o.originalPositionsDiffuse = FALSE]
    ELSE e1

Diffuse(e, t) ==
  IF e.points = 0 THEN e
  ELSE LET e1 == DiffuseStarted(e, t) IN
    IF e1.o.diffusionPhaseStartedAt = Undef \/ e1.o.diffusingStartIndex = Undef
    THEN e1
    ELSE IF DiffuseEnds(e1, t)
    THEN [e1 EXCEPT !.draw = e1.o.diffusingStartIndex,
                    !.o.diffusionPhaseStartedAt = Undef,
                    !.o.diffusingStartIndex = Undef,
                    !.o.originalPositionsDiffuse = FALSE]
    ELSE e1   \* jitter of the diffusing points: positions are not modelled

\* Lifetime and removal, per object.
RemovalBegins(e, t) ==
  e.o.removalStartedAt = Undef /\ t - e.o.loadedAt >= e.o.lifetime

\* one point per frame whatever the size
RemoveOnePerFrame(target) == 1

RemovePerFrame(target) == Max(1, RemovalCeil(target))

Removal(e, t) ==
  IF e.o.removalStartedAt = Undef /\ ~RemovalBegins(e, t) THEN e
  ELSE LET e1 == IF e.o.removalStartedAt = Undef
                 THEN [e EXCEPT !.o.removalStartedAt = t,
                                !.o.visiblePoints = e.draw]
                 ELSE e
           before == IF e1.o.visiblePoints = Undef THEN e1.o.targetPoints
                     ELSE e1.o.visiblePoints
           v == Max(0, before - RemovePerFrame(e1.o.targetPoints))
       IN [e1 EXCEPT !.o.visiblePoints = v, !.draw = v]

ToDelete(e) == e.o.removalStartedAt # Undef /\ e.o.visiblePoints <= 0

ObjectFrame(id, d, t) ==
  LET o == objects[id]
      e0 == [o |-> o, draw |-> meshes[o.mesh].draw, points |-> meshes[o.mesh].points]
  IN Removal(Diffuse(Materialize(e0, d), t), t)

\* World scroll of one child.
Scroll(m, wz) ==
  IF wz + m.z > WORLD_Z_RESPAWN THEN [m EXCEPT !.z = @ - OBJECT_Z_WRAP] ELSE m

\* smoothstep t*t*(3-2t) of progress k / TEXTURE_FADE_DURATION, in 1/125
Ease(k) == k * k * (3 * TEXTURE_FADE_DURATION - 2 * k)
OpacityOne == TEXTURE_FADE_DURATION * TEXTURE_FADE_DURATION * TEXTURE_FADE_DURATION

SetOpacity(e, h, v) == IF h = Undef THEN e ELSE [e EXCEPT ![h].opacity = v]
Dispose(e, h) == IF h = Undef THEN e ELSE [e EXCEPT ![h].disposed = TRUE]

HasTransition ==
  /\ textureFadeProgress < TEXTURE_FADE_DURATION
  /\ (sky # Undef \/ terrain # Undef \/ lastSky # Undef \/ lastTerrain # Undef)

Crossfade(d) ==
  IF HasTransition
  THEN LET p == Min(TEXTURE_FADE_DURATION, textureFadeProgress + d)
           ease == Ease(p)
           e1 == SetOpacity(SetOpacity(env, sky, ease), terrain, ease)
           e2 == SetOpacity(SetOpacity(e1, lastSky, OpacityOne - ease),
                            lastTerrain, OpacityOne - ease)
       IN /\ textureFadeProgress' = p
          /\ IF p >= TEXTURE_FADE_DURATION
             THEN /\ env' = Dispose(Dispose(e2, lastSky), lastTerrain)
                  /\ envInScene' = envInScene \ {lastSky, lastTerrain}
                  /\ lastSky' = Undef
                  /\ lastTerrain' = Undef
             ELSE /\ env' = e2
                  /\ UNCHANGED <<envInScene, lastSky, lastTerrain>>
  ELSE UNCHANGED <<textureFadeProgress, env, envInScene, lastSky, lastTerrain>>

Deltas == {10, 90}

animate(d) ==
  LET t == now + d
      wz == worldZ + FORWARD_SPEED
      live == {id \in Ids : objects[id] # Absent}
      fr == [id \in live |-> ObjectFrame(id, d, t)]
      idsToDelete == {id \in live : ToDelete(fr[id])}
      meshOf == [id \in live |-> objects[id].mesh]
      gone == {meshOf[id] : id \in idsToDelete}
      owner(h) == CHOOSE id \in live : meshOf[id] = h
      IsLive(h) == \E id \in live : meshOf[id] = h
      KeepChild(h) == h \notin gone
  IN /\ Crossfade(d)
     /\ worldZ' = wz
     /\ now' = t
     /\ meshes' = [h \in DOMAIN meshes |->
          LET m == IF \E k \in DOMAIN children : children[k] = h
                   THEN Scroll(meshes[h], wz) ELSE meshes[h]
          IN IF IsLive(h)
             THEN [m EXCEPT !.draw = fr[owner(h)].draw,
                            !.disposed = h \in gone]
             ELSE m]
     /\ children' = SelectSeq(children, KeepChild)
     /\ objects' = [id \in Ids |->
          IF id \in live /\ id \notin idsToDelete THEN fr[id].o ELSE Absent]
     /\ selectedObjectId' =
          IF selectedObjectId \in idsToDelete THEN NULL ELSE selectedObjectId
     /\ removed' = (removed \cup idsToDelete)
     /\ lastOp' = Mutation
     /\ UNCHANGED <<yaw, pitch, dolly, sky, terrain, pending, addPromise, mvars,
                    nCalls>>

\* setSkyAndTerrain leaving the outgoing pair at whatever opacity it has
setSkyAndTerrainUnpinned ==
  LET h1 == Len(env) + 1
      h2 == Len(env) + 2
      e4 == env \o <<[opacity |-> 0, disposed |-> FALSE],
                     [opacity |-> 0, disposed |-> FALSE]>>
  IN /\ textureFadeProgress' = 0
     /\ lastSky' = IF sky # Undef THEN sky ELSE lastSky
     /\ sky' = h1
     /\ lastTerrain' = IF terrain # Undef THEN terrain ELSE lastTerrain
     /\ terrain' = h2
     /\ env' = e4
     /\ envInScene' = envInScene \cup {h1, h2}
     /\ lastOp' = Mutation
     /\ UNCHANGED <<objects, meshes, children, selectedObjectId, yaw, pitch,
                    dolly, worldZ, now, pending, addPromise, mvars, nCalls,
                    removed>>

setSkyAndTerrain ==
  LET h1 == Len(env) + 1
      h2 == Len(env) + 2
      e1 == SetOpacity(env, sky, OpacityOne)
      e2 == Append(e1, [opacity |-> 0, disposed |-> FALSE])
      e3 == SetOpacity(e2, terrain, OpacityOne)
      e4 == Append(e3, [opacity |-> 0, disposed |-> FALSE])
  IN /\ textureFadeProgress' = 0
     /\ lastSky' = IF sky # Undef THEN sky ELSE lastSky
     /\ sky' = h1
     /\ lastTerrain' = IF terrain # Undef THEN terrain ELSE lastTerrain
     /\ terrain' = h2
     /\ env' = e4
     /\ envInScene' = envInScene \cup {h1, h2}
     /\ lastOp' = Mutation
     /\ UNCHANGED <<objects, meshes, children, selectedObjectId, yaw, pitch,
                    dolly, worldZ, now, pending, addPromise, mvars, nCalls,
                    removed>>

\* ---- addObjects and the point-cloud loads
Types == PlyTypes \cup PrimTypes
PointCounts == {MaxPoints}
PlyCounts == {0, MaxPoints + 1}
Lifetimes == {OBJECT_LIFETIME_MIN}
\* requested objects: "a" at the origin, "b" close to the respawn depth
PosOf(id) == IF id = "a" THEN <<0, 0, 0>> ELSE <<4, 2, WORLD_Z_RESPAWN - 2>>
DataSet == {[id |-> id, type |-> ty, maxPoints |-> n,
             x |-> PosOf(id)[1], y |-> PosOf(id)[2], z |-> PosOf(id)[3]] :
              id \in Ids, ty \in Types, n \in PointCounts}
ListsOf(S) == {<<>>} \cup {<<d>> : d \in S} \cup {<<d1, d2>> : d1 \in S, d2 \in S}
Lists == ListsOf(DataSet)
PrimLists == ListsOf({d \in DataSet : d.type \in PrimTypes})

\* the switch on data.type: the synthetic primitive sampled for a type
PrimitiveOf(type) ==
  CASE type = "sphere" -> "SphereGeometry"
    [] type = "box" -> "BoxGeometry"
    [] type = "cylinder" -> "CylinderGeometry"
    [] type = "torus" -> "TorusGeometry"
    [] OTHER -> "IcosahedronGeometry"

\* objects.map(createPointCloudObject) that skips the types without a case
RECURSIVE StartAllKnownTypes(_, _, _, _, _)
StartAllKnownTypes(r, list, k, t, life) ==
  IF k = 0 THEN r
  ELSE LET r1 == StartAllKnownTypes(r, list, k - 1, t, life)
           data == list[k]
       IN IF data.type \in PlyTypes
          THEN [r1 EXCEPT !.calls = Append(@, data)]
          ELSE IF PrimitiveOf(data.type) = "IcosahedronGeometry" THEN r1
          ELSE CreateCloud(r1, data, data.maxPoints, t, life[k])

\* objects.map(createPointCloudObject) up to each call's first await: a
\* primitive type is created at once, a PLY type waits for its load.
RECURSIVE StartAll(_, _, _, _, _)
StartAll(r, list, k, t, life) ==
  IF k = 0 THEN r
  ELSE LET r1 == StartAll(r, list, k - 1, t, life)
           data == list[k]
       IN IF data.type \in PlyTypes
          THEN [r1 EXCEPT !.calls = Append(@, data)]
          ELSE CreateCloud(r1, data, data.maxPoints, t, life[k])

\* life[k] is the Math.random() lifetime drawn for list[k].
addObjects(list, life) ==
  LET r0 == [Rd EXCEPT !.selectedObjectId = NULL]
      r == IF Len(list) = 0 THEN r0
           ELSE StartAll(r0, list, Len(list), now, life)
  IN /\ objects' = r.objects
     /\ meshes' = r.meshes
     /\ children' = r.children
     /\ selectedObjectId' = r.selectedObjectId
     \* stale marks the loads started by an earlier addObjects call
     /\ pending' = [k \in DOMAIN pending |-> [pending[k] EXCEPT !.stale = TRUE]]
                     \o [k \in 1..Len(r.calls) |->
                           [data |-> r.calls[k], stale |-> FALSE]]
     \* await Promise.all(...): settled at once unless a PLY load is awaited
     /\ addPromise' = IF Len(r.calls) = 0 THEN "fulfilled" ELSE "pending"
     /\ removed' = {id \in removed : r.objects[id] = Absent}
     /\ lastOp' = [op |-> "addObjects",
                   types |-> [k \in 1..Len(list) |-> list[k].type]]
     /\ UNCHANGED <<yaw, pitch, dolly, worldZ, now, sky, terrain, lastSky,
                    lastTerrain, env, envInScene, textureFadeProgress, mvars,
                    nCalls>>

Without(seq, i) == [k \in 1..(Len(seq) - 1) |-> IF k < i THEN seq[k] ELSE seq[k + 1]]

\* pending[i] is the only load of the latest addObjects call still in flight.
LastOfCall(i) ==
  /\ ~pending[i].stale
  /\ \A k \in DOMAIN pending : k # i => pending[k].stale

\* The rest of createPointCloudObject with no test of the point count.
loadResolvesAnyCount(i, count, lifetime) ==
  LET data == pending[i].data
      r == CreateCloud(Rd, data, count, now, lifetime)
  IN /\ objects' = r.objects
     /\ meshes' = r.meshes
     /\ children' = r.children
     /\ pending' = Without(pending, i)
     /\ addPromise' = IF LastOfCall(i) /\ addPromise = "pending"
                      THEN "fulfilled" ELSE addPromise
     /\ removed' = {id \in removed : r.objects[id] = Absent}
     /\ lastOp' = [op |-> "loadResolves", id |-> data.id, count |-> count]
     /\ UNCHANGED <<selectedObjectId, yaw, pitch, dolly, worldZ, now, sky,
                    terrain, lastSky, lastTerrain, env, envInScene,
                    textureFadeProgress, mvars, nCalls>>

\* The PLY load of pending[i] resolves with a geometry of count points:
\* the rest of createPointCloudObject runs.
loadResolves(i, count, lifetime) ==
  LET data == pending[i].data
      r == IF count = 0 THEN Rd ELSE CreateCloud(Rd, data, count, now, lifetime)
  IN /\ objects' = r.objects
     /\ meshes' = r.meshes
     /\ children' = r.children
     /\ pending' = Without(pending, i)
     /\ addPromise' = IF LastOfCall(i) /\ addPromise = "pending"
                      THEN "fulfilled" ELSE addPromise
     /\ removed' = {id \in removed : r.objects[id] = Absent}
     /\ lastOp' = [op |-> "loadResolves", id |-> data.id, count |-> count]
     /\ UNCHANGED <<selectedObjectId, yaw, pitch, dolly, worldZ, now, sky,
                    terrain, lastSky, lastTerrain, env, envInScene,
                    textureFadeProgress, mvars, nCalls>>

\* The PLY load of pending[i] rejects: createPointCloudObject throws.
loadRejects(i) ==
  /\ pending' = Without(pending, i)
  /\ addPromise' = IF ~pending[i].stale /\ addPromise = "pending"
                   THEN "rejected" ELSE addPromise
  /\ lastOp' = Mutation
  /\ UNCHANGED <<objects, meshes, children, selectedObjectId, yaw, pitch,
                 dolly, worldZ, now, sky, terrain, lastSky, lastTerrain, env,
                 envInScene, textureFadeProgress, mvars, nCalls, removed>>

\* ---- direct calls of the public operations
Commit(r) ==
  /\ objects' = r.objects
  /\ meshes' = r.meshes
  /\ children' = r.children
  /\ selectedObjectId' = r.selectedObjectId
  /\ yaw' = r.yaw
  /\ pitch' = r.pitch
  /\ dolly' = r.dolly

EnvUnchanged ==
  UNCHANGED <<worldZ, now, sky, terrain, lastSky, lastTerrain, env, envInScene,
              textureFadeProgress, pending, addPromise, removed>>

callSetSelected(id) ==
  /\ Commit(setSelectedObjectId(Rd, id))
  /\ lastOp' = Mutation
  /\ EnvUnchanged
  /\ UNCHANGED <<mvars, nCalls>>

callTriggerDiffuse(id) ==
  /\ Commit(triggerDiffuse(Rd, id))
  /\ lastOp' = Mutation
  /\ EnvUnchanged
  /\ UNCHANGED <<mvars, nCalls>>

ManipInputs == {<<"scale", <<196, 100>> >>}

callManipulate(id, in) ==
  /\ Commit(manipulateObject(Rd, id, in[1], in[2]))
  /\ nCalls' = [nCalls EXCEPT !.manip = @ + 1]
  /\ lastOp' = Mutation
  /\ EnvUnchanged
  /\ UNCHANGED mvars

\* Screen points queried (hand-centre units) and projected NDC positions.
ScreenPoints == {<<20, 100>>, <<60, 98>>}
NdcPoints == {<<-80, 0>>, <<-40, 4>>}
Projections == [{children[k] : k \in DOMAIN children} -> NdcPoints]

callFind(pt, proj) ==
  /\ lastOp' = [op |-> "findClosestObjectAtScreenPoint", x |-> pt[1], y |-> pt[2],
                proj |-> proj,
                result |-> findClosestObjectAtScreenPoint(Rd, proj, pt[1], pt[2])]
  /\ UNCHANGED <<rvars, mvars, nCalls, removed>>

\* <<yaw, pitch>> arguments: beyond the per-frame limit, and within it
OrbitArgs == {<<2000000, 2000000>>, <<-2000000, -2000000>>, <<20000, 0>>}
DollyArgs == {-900000, 0, 150000}

callOrbit(y, p) ==
  /\ Commit(orbitCamera(Rd, y, p))
  /\ lastOp' = Mutation
  /\ EnvUnchanged
  /\ UNCHANGED <<mvars, nCalls>>

callDolly(d) ==
  /\ Commit(dollyCamera(Rd, d))
  /\ nCalls' = [nCalls EXCEPT !.camera = @ + 1]
  /\ lastOp' = Mutation
  /\ EnvUnchanged
  /\ UNCHANGED mvars

\* ------------------------------------------------- the built-in actions
\* The instances App registers, in its order of registration.
AppActions == <<"OrbitCameraAction", "DollyCameraAction", "PinchTranslateAction",
                "FistRotateAction", "PalmReleaseAction", "TwoHandPinchScaleAction">>

\* An instance is named after its class; "secondOrbitCameraAction" is another
\* object made by new OrbitCameraAction().
ClassOf(a) == IF a = "secondOrbitCameraAction" THEN "OrbitCameraAction" ELSE a

HandOf(a) ==
  CASE ClassOf(a) \in {"OrbitCameraAction", "DollyCameraAction"} -> "right"
    [] ClassOf(a) = "TwoHandPinchScaleAction" -> "both"
    [] OTHER -> "left"

GestureOf(a) ==
  CASE ClassOf(a) \in {"OrbitCameraAction", "PalmReleaseAction"} -> "Open Palm"
    [] ClassOf(a) \in {"DollyCameraAction", "FistRotateAction"} -> "Fist"
    [] ClassOf(a) = "PinchTranslateAction" -> "Pinch"
    [] OTHER -> "Pinch+Pinch"

NoHand == [gesture |-> "absent"]
NoLandmarks == 2 * 360
Present(h) == h # NoHand

\* Math.hypot of the centre difference, as its square.
HypotSq(a, b) == (b.x - a.x) * (b.x - a.x) + (b.y - a.y) * (b.y - a.y)

\* Rationals as <<numerator, denominator>>, denominator > 0.
RatLess(p, q) == p[1] * q[2] < q[1] * p[2]
RatMin(p, q) == IF RatLess(q, p) THEN q ELSE p
RatMax(p, q) == IF RatLess(p, q) THEN q ELSE p
\* the squares of the scale-factor limits 0.7 and 1.4
ScaleLo == <<49, 100>>
ScaleHi == <<196, 100>>

\* the raw ratio, with no limits
UnclampedScale(distSq, lastSq) == <<distSq, lastSq>>

\* Math.max(0.7, Math.min(1.4, dist / lastTwoHandDistance)), as its square
ClampedScale(distSq, lastSq) == RatMax(ScaleLo, RatMin(ScaleHi, <<distSq, lastSq>>))

Log(r, entry) == [r EXCEPT !.calls = Append(@, entry)]

\* radians per centre unit, in micro-radians; world units likewise
PerCentre == 1000000 \div 200

WrapAngle(a) == IF a > 180 THEN a - 360 ELSE IF a < -180 THEN a + 360 ELSE a

\* the translation with y not inverted
PinchTranslationUpright(delta) ==
  [x |-> (delta.x * TRANSLATION_SPEED * 2) \div 200,
   y |-> (delta.y * TRANSLATION_SPEED * 2) \div 200]

\* { x: delta.x * TRANSLATION_SPEED, y: -delta.y * TRANSLATION_SPEED }, in
\* half world units for a delta in 1/200 of the screen
PinchTranslation(delta) ==
  [x |-> (delta.x * TRANSLATION_SPEED * 2) \div 200,
   y |-> ((0 - delta.y) * TRANSLATION_SPEED * 2) \div 200]

\* the release the commented-out lines would perform
PalmReleaseDiffuses(r) ==
  LET id == r.selectedObjectId
      r1 == IF id = NULL THEN r ELSE triggerDiffuse(r, id)
  IN setSelectedObjectId(r1, NULL)

\* PalmReleaseAction.execute: a log line, its renderer calls commented out
PalmRelease(r) == r

\* execute(ctx) of each built-in action on the renderer r
Execute(a, ctx, r0) ==
  LET r == Log(r0, [fn |-> "execute", action |-> a])
      id == r.selectedObjectId
      class == ClassOf(a)
  IN CASE class = "OrbitCameraAction" ->
            LET y == (0 - ctx.delta.x) * 4 * PerCentre
                p == (0 - ctx.delta.y) * 4 * PerCentre
            IN orbitCamera(Log(r, [fn |-> "orbitCamera", yaw |-> y, pitch |-> p]), y, p)
       [] class = "DollyCameraAction" ->
            LET d == ctx.delta.y * 30 * PerCentre
            IN dollyCamera(Log(r, [fn |-> "dollyCamera", delta |-> d]), d)
       [] class = "PinchTranslateAction" ->
            IF id = NULL THEN r
            ELSE LET v == PinchTranslation(ctx.delta)
                 IN manipulateObject(
                      Log(r, [fn |-> "manipulateObject", id |-> id,
                              action |-> "translate", value |-> v]),
                      id, "translate", v)
       [] class = "FistRotateAction" ->
            IF id = NULL \/ ctx.hand.angle = NoLandmarks THEN r
            ELSE LET deltaAngle == WrapAngle(ctx.hand.angle - ctx.lastLeftAngle)
                 IN manipulateObject(
                      Log(r, [fn |-> "manipulateObject", id |-> id,
                              action |-> "rotate", value |-> deltaAngle * 2]),
                      id, "rotate", deltaAngle * 2)
       [] class = "PalmReleaseAction" -> PalmRelease(r)
       [] class = "TwoHandPinchScaleAction" ->
            IF \/ id = NULL
               \/ ~Present(ctx.leftHand) \/ ~Present(ctx.rightHand)
               \/ ctx.lastTwoHandDistance <= 0
            THEN r
            ELSE LET distSq == HypotSq(ctx.leftHand.center, ctx.rightHand.center)
                     clamped == ClampedScale(distSq, ctx.lastTwoHandDistance)
                 IN manipulateObject(
                      Log(r, [fn |-> "manipulateObject", id |-> id,
                              action |-> "scale", value |-> clamped]),
                      id, "scale", clamped)
       [] OTHER -> r

\* action.execute(ctx) called on the renderer as it stands
callExecute(a, ctx) ==
  /\ Commit(Execute(a, ctx, Rd))
  /\ nCalls' = [nCalls EXCEPT !.camera = @ + 1]
  /\ lastOp' = Mutation
  /\ EnvUnchanged
  /\ UNCHANGED mvars

\* ------------------------------------------------- CameraActionManager
\* push with no includes() test
registerAlways(a) ==
  /\ actions' = Append(actions, a)
  /\ lastOp' = Mutation
  /\ UNCHANGED <<rvars, lastLeft, lastRight, lastTwoHandDistance,
                 lastLeftAngle, removed, nCalls>>

register(a) ==
  /\ actions' = IF \E k \in DOMAIN actions : actions[k] = a
                THEN actions ELSE Append(actions, a)
  /\ lastOp' = Mutation
  /\ UNCHANGED <<rvars, lastLeft, lastRight, lastTwoHandDistance,
                 lastLeftAngle, removed, nCalls>>

unregister(a) ==
  LET Other(x) == x # a
  IN /\ actions' = SelectSeq(actions, Other)
     /\ lastOp' = [op |-> "unregister", action |-> a]
     /\ UNCHANGED <<rvars, lastLeft, lastRight, lastTwoHandDistance,
                    lastLeftAngle, removed, nCalls>>

clear ==
  /\ actions' = <<>>
  /\ lastOp' = [op |-> "clear"]
  /\ UNCHANGED <<rvars, lastLeft, lastRight, lastTwoHandDistance,
                 lastLeftAngle, removed, nCalls>>

\* The two-hand loop of process(): actions[1..k] in order.
RECURSIVE RunBoth(_, _, _, _, _)
RunBoth(acts, k, left, right, rc) ==
  IF k = 0 THEN rc[2]
  ELSE LET r == RunBoth(acts, k - 1, left, right, rc)
           a == acts[k]
       IN IF HandOf(a) # "both" THEN r
          ELSE IF left.gesture = "Pinch" /\ right.gesture = "Pinch"
                  /\ GestureOf(a) = "Pinch+Pinch"
               THEN Execute(a, rc[1], r)
               ELSE r

\* right-hand actions whenever a right hand is present
RunsRightAlways(left, right) == Present(right)

\* The right-hand guard of process(): navigation only without a left hand.
RunsRight(left, right) == Present(right) /\ ~Present(left)

\* every action of the hand slot, whatever its gesture
RECURSIVE runMatchingAnyGesture(_, _, _, _, _, _)
runMatchingAnyGesture(acts, k, hand, handData, ctx, r0) ==
  IF k = 0 THEN r0
  ELSE LET r == runMatchingAnyGesture(acts, k - 1, hand, handData, ctx, r0)
           a == acts[k]
       IN IF HandOf(a) # hand THEN r ELSE Execute(a, ctx, r)

\* runMatching: actions[1..k] in order.
RECURSIVE runMatching(_, _, _, _, _, _)
runMatching(acts, k, hand, handData, ctx, r0) ==
  IF k = 0 THEN r0
  ELSE LET r == runMatching(acts, k - 1, hand, handData, ctx, r0)
           a == acts[k]
       IN IF HandOf(a) # hand \/ GestureOf(a) # handData.gesture THEN r
          ELSE Execute(a, ctx, r)

\* the centre itself, with no previous centre subtracted
DeltaFromOrigin(c, last) == [x |-> c.x, y |-> c.y]

Delta(c, last) == [x |-> c.x - last.x, y |-> c.y - last.y]

\* the right centre stored only when the right-hand actions ran
RightCentreWhenNavigating(left, right) ==
  IF RunsRight(left, right) THEN right.center ELSE lastRight

\* this.lastRight after process()
RightCentre(left, right) == IF Present(right) THEN right.center ELSE lastRight

\* the distance kept when a hand is missing
TwoHandDistanceKept(left, right) ==
  IF Present(left) /\ Present(right)
  THEN HypotSq(left.center, right.center) ELSE lastTwoHandDistance

\* this.lastTwoHandDistance after the two-hand block of process(), squared
TwoHandDistance(left, right) ==
  IF Present(left) /\ Present(right)
  THEN HypotSq(left.center, right.center) ELSE 0

\* The renderer after the calls of one process(), with prevLeft and prevRight
\* standing for this.lastLeft and this.lastRight.
Dispatch(left, right, proj, prevLeft, prevRight) ==
  LET \* highlight
      r1 == IF Present(left)
            THEN LET closestId == findClosestObjectAtScreenPoint(
                                    Rd, proj, left.center.x, left.center.y)
                 IN setSelectedObjectId(
                      Log(Rd, [fn |-> "setSelectedObjectId", id |-> closestId]),
                      closestId)
            ELSE setSelectedObjectId(
                   Log(Rd, [fn |-> "setSelectedObjectId", id |-> NULL]), NULL)
      \* two-hand actions
      both == Present(left) /\ Present(right)
      dist == IF both THEN HypotSq(left.center, right.center) ELSE 0
      ctx2 == [hand |-> left, delta |-> [x |-> 0, y |-> 0],
               lastCenter |-> prevLeft, leftHand |-> left, rightHand |-> right,
               lastTwoHandDistance |-> lastTwoHandDistance,
               lastLeftAngle |-> Undef]
      r2 == IF both THEN RunBoth(actions, Len(actions), left, right, <<ctx2, r1>>)
            ELSE r1
      l2d == TwoHandDistance(left, right)
      \* left-hand actions
      ctxL == [hand |-> left, delta |-> Delta(left.center, prevLeft),
               lastCenter |-> prevLeft, leftHand |-> left, rightHand |-> right,
               lastTwoHandDistance |-> l2d, lastLeftAngle |-> lastLeftAngle]
      r3 == IF Present(left)
            THEN runMatching(actions, Len(actions), "left", left, ctxL, r2)
            ELSE r2
      \* right-hand actions
      ctxR == [hand |-> right, delta |-> Delta(right.center, prevRight),
               lastCenter |-> prevRight, leftHand |-> left, rightHand |-> right,
               lastTwoHandDistance |-> l2d, lastLeftAngle |-> Undef]
      r4 == IF RunsRight(left, right)
            THEN runMatching(actions, Len(actions), "right", right, ctxR, r3)
            ELSE r3
  IN r4

process(left, right, proj) ==
  LET r4 == Dispatch(left, right, proj, lastLeft, lastRight)
      l2d == TwoHandDistance(left, right)
  IN /\ Commit(r4)
     /\ lastTwoHandDistance' = l2d
     /\ lastLeft' = IF Present(left) THEN left.center ELSE lastLeft
     /\ lastLeftAngle' = IF Present(left) /\ left.angle # NoLandmarks
                         THEN left.angle ELSE lastLeftAngle
     /\ lastRight' = RightCentre(left, right)
     /\ lastOp' = [op |-> "process", left |-> left, right |-> right,
                   calls |-> r4.calls]
     /\ nCalls' = [nCalls EXCEPT !.process = @ + 1]
     /\ UNCHANGED actions
     /\ EnvUnchanged

\* ------------------------------------------------------------ behaviours
Init ==
  /\ objects = [id \in Ids |-> Absent]
  /\ meshes = <<>>
  /\ children = <<>>
  /\ selectedObjectId = NULL
  /\ yaw = 0 /\ pitch = 0 /\ dolly = 0
  /\ worldZ = 0
  /\ now = 0
  /\ sky = Undef /\ terrain = Undef /\ lastSky = Undef /\ lastTerrain = Undef
  /\ env = <<>>
  /\ envInScene = {}
  /\ textureFadeProgress = 0
  /\ pending = <<>>
  /\ addPromise = "none"
  /\ actions = <<>>
  /\ lastLeft = [x |-> 0, y |-> 0]
  /\ lastRight = [x |-> 0, y |-> 0]
  /\ lastTwoHandDistance = 0
  /\ lastLeftAngle = 0
  /\ lastOp = Mutation
  /\ removed = {}
  /\ nCalls = [process |-> 0, camera |-> 0, manip |-> 0]

\* ---- SpecLife: the object lifecycle, frames interleaved with the calls
\* that add, restart and move objects.
LifeFrame ==
  /\ worldZ < MaxLifeFrames * FORWARD_SPEED
  /\ \E d \in Deltas : animate(d)
LifeAdd ==
  \E list \in Lists :
    /\ Len(meshes) + Len(pending) + Len(list) <= MaxLifeMeshes
    /\ \E life \in [1..Len(list) -> Lifetimes] : addObjects(list, life)
LoadResolves ==
  \E i \in DOMAIN pending, count \in PlyCounts, lifetime \in Lifetimes :
    loadResolves(i, count, lifetime)
LoadRejects == \E i \in DOMAIN pending : loadRejects(i)
TriggerDiffuse == \E id \in Ids : callTriggerDiffuse(id)
Manipulate ==
  /\ nCalls.manip < MaxManip
  /\ \E id \in Ids, in \in ManipInputs : callManipulate(id, in)
NextLife ==
  \/ LifeFrame
  \/ LifeAdd
  \/ LoadResolves
  \/ LoadRejects
  \/ TriggerDiffuse
  \/ Manipulate
SpecLife == Init /\ [][NextLife]_vars

\* ---- SpecPick: selection and picking over a changing object set.
PickDeltas == {OBJECT_LIFETIME_MIN}
PickLifetimes == {OBJECT_LIFETIME_MIN}
PickFrame ==
  /\ worldZ < MaxPickFrames * FORWARD_SPEED
  /\ \E d \in PickDeltas : animate(d)
PickAdd ==
  \E list \in PrimLists :
    /\ Len(meshes) + Len(list) <= MaxPickMeshes
    /\ \E life \in [1..Len(list) -> PickLifetimes] : addObjects(list, life)
SetSelected == \E id \in Ids \cup {NULL} : callSetSelected(id)
Find == \E pt \in ScreenPoints, proj \in Projections : callFind(pt, proj)
NextPick ==
  \/ PickFrame
  \/ PickAdd
  \/ SetSelected
  \/ Find
SpecPick == Init /\ [][NextPick]_vars

\* ---- SpecCamera: the camera rig under direct orbit and dolly calls.
\* The rig angles are bounded by the code itself: orbit calls are not capped.
Orbit == \E a \in OrbitArgs : callOrbit(a[1], a[2])
Dolly ==
  /\ nCalls.camera < MaxCamera
  /\ \E d \in DollyArgs : callDolly(d)
\* vertical hand movements handed to DollyCameraAction, in centre units
DollyDeltas == {-6, 0, 1}
DollyByAction ==
  /\ nCalls.camera < MaxCamera
  /\ \E dy \in DollyDeltas :
       callExecute("DollyCameraAction", [delta |-> [x |-> 0, y |-> dy]])
NextCamera == Orbit \/ Dolly \/ DollyByAction
SpecCamera == Init /\ [][NextCamera]_vars

\* ---- SpecFade: the environment crossfade.
FadeDeltas == {1, 2, 3}
FadeFrame ==
  /\ worldZ < MaxFadeFrames * FORWARD_SPEED
  /\ \E d \in FadeDeltas : animate(d)
SetSkyAndTerrain ==
  /\ Len(env) < 2 * MaxEnv
  /\ setSkyAndTerrain
NextFade == FadeFrame \/ SetSkyAndTerrain
SpecFade == Init /\ [][NextFade]_vars

\* ---- SpecManager: gesture dispatch on a small scene.
Gestures == {"Open Palm", "Fist", "Pinch"}
RightCentres == {[x |-> 60, y |-> 100], [x |-> 80, y |-> 100], [x |-> 61, y |-> 101]}
\* left-hand poses: a centre and the pointing angle in degrees
LeftPoses == {<<[x |-> 20, y |-> 100], 170>>, <<[x |-> 20, y |-> 100], -170>>,
              <<[x |-> 21, y |-> 98], NoLandmarks>>}
LeftHands == {NoHand} \cup
  {[gesture |-> g, center |-> p[1], angle |-> p[2]] : g \in Gestures, p \in LeftPoses}
RightHands == {NoHand} \cup
  {[gesture |-> g, center |-> c, angle |-> NoLandmarks] :
     g \in Gestures, c \in RightCentres}

\* App registers its actions once, in order, before gestures arrive.
Register ==
  /\ nCalls.process = 0
  /\ Len(actions) < Len(AppActions)
  /\ register(AppActions[Len(actions) + 1])
\* One generated scene of a single object, before gestures arrive.
MgrAdd ==
  /\ nCalls.process = 0
  /\ meshes = <<>>
  /\ \E list \in PrimLists :
       /\ Len(list) = 1
       /\ \E life \in [1..Len(list) -> PickLifetimes] : addObjects(list, life)
Process ==
  /\ nCalls.process < MaxProcess
  /\ Len(actions) = Len(AppActions)
  /\ \E left \in LeftHands, right \in RightHands, proj \in Projections :
       process(left, right, proj)
NextManager == Register \/ MgrAdd \/ Process
SpecManager == Init /\ [][NextManager]_vars

\* ---- SpecReveal: the reveal and diffusion of one object, frame by frame.
RevealDeltas == {4, 10}
RevealAdd ==
  /\ meshes = <<>>
  /\ \E list \in PrimLists :
       /\ Len(list) = 1
       /\ \E life \in [1..Len(list) -> Lifetimes] : addObjects(list, life)
RevealFrame ==
  /\ worldZ < MaxRevealFrames * FORWARD_SPEED
  /\ \E d \in RevealDeltas : animate(d)
RevealRestart == \E id \in Ids : callTriggerDiffuse(id)
NextReveal == RevealAdd \/ RevealFrame \/ RevealRestart
SpecReveal == Init /\ [][NextReveal]_vars

\* ---- SpecLoad: addObjects calls of up to two objects and their PLY loads.
LoadAdd ==
  \E list \in Lists :
    /\ Len(meshes) + Len(pending) + Len(list) <= MaxLoadMeshes
    /\ \E life \in [1..Len(list) -> Lifetimes] : addObjects(list, life)
NextLoad == LoadAdd \/ LoadResolves \/ LoadRejects
SpecLoad == Init /\ [][NextLoad]_vars

\* ---- SpecHands: hands that leave the camera's view and come back.
ComingLeft == {NoHand} \cup
  {h \in LeftHands : Present(h) /\ h.gesture = "Pinch" /\ h.angle # 170}
ComingRight == {NoHand} \cup
  {h \in RightHands : Present(h) /\ h.gesture = "Open Palm" /\ h.center.y = 100}
HandsProcess ==
  /\ nCalls.process < MaxHandCalls
  /\ Len(actions) = Len(AppActions)
  /\ \E left \in ComingLeft, right \in ComingRight, proj \in Projections :
       process(left, right, proj)
NextHands == Register \/ MgrAdd \/ HandsProcess
SpecHands == Init /\ [][NextHands]_vars

\* ---- SpecRegistry: the action list under register, unregister and clear.
Instances == {AppActions[k] : k \in DOMAIN AppActions}
NextRegistry ==
  \/ \E a \in Instances : register(a)
  \/ \E a \in Instances : unregister(a)
  \/ clear
SpecRegistry == Init /\ [][NextRegistry]_vars

\* ---- SpecManip: manipulateObject on a scene of up to two objects.
\* a translation, a rotation in degrees and the scale factor 2 (as its square)
ManipKinds == {<<"translate", [x |-> 2, y |-> -1]>>, <<"rotate", 30>>,
               <<"scale", <<4, 1>> >>}
ManipAdd ==
  /\ meshes = <<>>
  /\ \E list \in PrimLists :
       \E life \in [1..Len(list) -> Lifetimes] : addObjects(list, life)
ManipCall ==
  /\ nCalls.manip < MaxManipCalls
  /\ \E id \in Ids, in \in ManipKinds : callManipulate(id, in)
NextManip == ManipAdd \/ ManipCall
SpecManip == Init /\ [][NextManip]_vars

\* ---- SpecNav: right-hand navigation with OrbitCameraAction and
\* DollyCameraAction registered and no left hand.
NavRight == {NoHand} \cup
  {[gesture |-> g, center |-> c, angle |-> NoLandmarks] :
     g \in {"Open Palm", "Fist"},
     c \in {[x |-> 100, y |-> 100], [x |-> 120, y |-> 100], [x |-> 100, y |-> 101]}}
NavProcess ==
  /\ nCalls.process < MaxNavCalls
  /\ actions = SubSeq(AppActions, 1, 2)
  /\ \E right \in NavRight, proj \in Projections : process(NoHand, right, proj)
NextNav == Register \/ NavProcess
SpecNav == Init /\ [][NextNav]_vars

\* ---- SpecMatch: process() on registries built in any order, one of them
\* with two OrbitCameraAction objects, and hands the tracker could not label.
MatchInstances == {"OrbitCameraAction", "secondOrbitCameraAction",
                   "DollyCameraAction", "FistRotateAction"}
MatchLeft == {NoHand} \cup
  {[gesture |-> g, center |-> [x |-> 20, y |-> 100], angle |-> NoLandmarks] :
     g \in {"Fist", "Unknown"}}
MatchRight == {NoHand} \cup
  {[gesture |-> g, center |-> [x |-> 101, y |-> 100], angle |-> NoLandmarks] :
     g \in {"Open Palm", "Fist", "Unknown"}}
MatchRegister ==
  /\ nCalls.process = 0
  /\ \E a \in MatchInstances : register(a)
MatchProcess ==
  /\ nCalls.process < MaxProcess
  /\ \E left \in MatchLeft, right \in MatchRight, proj \in Projections :
       process(left, right, proj)
NextMatch == MatchRegister \/ MatchProcess
SpecMatch == Init /\ [][NextMatch]_vars

\* ---- SpecRemoval: one object, small or of 400 points, from its creation
\* to its deletion, selected or not; frames of 15 s while it is young and of
\* 45 s at any age.
RemovalObjects ==
  {[id |-> "a", type |-> "sphere", maxPoints |-> n, x |-> 0, y |-> 0, z |-> 0] :
     n \in {MaxPoints, 400}}
RemovalAdd ==
  /\ meshes = <<>>
  /\ \E data \in RemovalObjects :
       addObjects(<<data>>, [k \in {1} |-> OBJECT_LIFETIME_MIN])
RemovalFrame ==
  /\ objects["a"] # Absent
  /\ \E d \in {30, OBJECT_LIFETIME_MIN} :
       /\ d = 30 => now < OBJECT_LIFETIME_MIN
       /\ animate(d)
RemovalSelect == \E id \in {"a", NULL} : callSetSelected(id)
NextRemoval == RemovalAdd \/ RemovalFrame \/ RemovalSelect
SpecRemoval == Init /\ [][NextRemoval]_vars

\* ---- SpecVanish: the frames of SpecRemoval kept running, with restarts,
\* selections and a manipulation in between, for both ends of the lifetime
\* range.
VanishAdd ==
  /\ meshes = <<>>
  /\ \E data \in RemovalObjects,
        lifetime \in {OBJECT_LIFETIME_MIN, OBJECT_LIFETIME_MAX - 1} :
       addObjects(<<data>>, [k \in {1} |-> lifetime])
VanishManipulate ==
  /\ nCalls.manip < MaxManip
  /\ \E in \in ManipInputs : callManipulate("a", in)
NextVanish ==
  \/ VanishAdd
  \/ RemovalFrame
  \/ RemovalSelect
  \/ callTriggerDiffuse("a")
  \/ VanishManipulate
\* Weak fairness of RemovalFrame, written without ENABLED: the action is
\* enabled exactly while "a" is in the registry (a frame of 45 s is always
\* possible), and its steps are the steps of NextVanish that advance the clock.
FramesKeepRunning ==
  []<>(objects["a"] = Absent) \/ []<><<now' # now>>_vars
SpecVanish == Init /\ [][NextVanish]_vars /\ FramesKeepRunning

\* ---- SpecPhases: the phases of object "a", added, restarted, deleted and
\* added once more; frames of 5 s while the clock is below 45 s and of 45 s
\* at any time.
PhasesAdd ==
  /\ objects["a"] = Absent
  /\ Len(meshes) < MaxPickMeshes
  /\ \E data \in RemovalObjects :
       addObjects(<<data>>, [k \in {1} |-> OBJECT_LIFETIME_MIN])
PhasesFrame ==
  /\ objects["a"] # Absent
  /\ \E d \in {10, OBJECT_LIFETIME_MIN} :
       /\ d = 10 => now < OBJECT_LIFETIME_MIN
       /\ animate(d)
NextPhases == PhasesAdd \/ PhasesFrame \/ callTriggerDiffuse("a")
SpecPhases == Init /\ [][NextPhases]_vars

\* ---- SpecLeft: the left hand over a scene of two objects, with a right
\* palm that comes and goes.
LeftOnly == {NoHand} \cup
  {[gesture |-> g, center |-> c, angle |-> NoLandmarks] :
     g \in {"Pinch", "Open Palm"},
     c \in {[x |-> 20, y |-> 100], [x |-> 24, y |-> 98]}}
RightPalm == {NoHand, [gesture |-> "Open Palm", center |-> [x |-> 160, y |-> 100],
                       angle |-> NoLandmarks]}
LeftAdd ==
  /\ nCalls.process = 0
  /\ meshes = <<>>
  /\ \E list \in PrimLists :
       /\ Len(list) = 2
       /\ list[1].id = "a" /\ list[2].id = "b"
       /\ \A k \in 1..2 : list[k].type = "sphere"
       /\ \E life \in [1..Len(list) -> Lifetimes] : addObjects(list, life)
LeftProcess ==
  /\ nCalls.process < MaxHandCalls
  /\ Len(actions) = Len(AppActions)
  /\ \E left \in LeftOnly, right \in RightPalm, proj \in Projections :
       process(left, right, proj)
\* one frame of 5 s before the gestures: the objects are half revealed
LeftFrame ==
  /\ nCalls.process = 0
  /\ meshes # <<>>
  /\ now = 0
  /\ animate(10)
NextLeft == Register \/ LeftAdd \/ LeftFrame \/ LeftProcess
SpecLeft == Init /\ [][NextLeft]_vars

\* ---- SpecScroll: the world scroll over many frames of 0.5 s, with object
\* "b" added close to the respawn depth or no object at all.
ScrollAdd ==
  /\ meshes = <<>>
  /\ now = 0
  /\ \E list \in PrimLists :
       /\ Len(list) = 1
       /\ list[1].id = "b" /\ list[1].type = "sphere"
       /\ addObjects(list, [k \in {1} |-> OBJECT_LIFETIME_MIN])
ScrollFrame ==
  /\ worldZ < MaxScrollFrames * FORWARD_SPEED
  /\ animate(1)
NextScroll == ScrollAdd \/ ScrollFrame
SpecScroll == Init /\ [][NextScroll]_vars

\* ---- SpecScale: two pinching hands over one object, their centres 0,
\* 0.01 or 0.015 apart.
ScaleLeft == {NoHand, [gesture |-> "Pinch", center |-> [x |-> 20, y |-> 100],
                       angle |-> NoLandmarks]}
ScaleRight == {NoHand} \cup
  {[gesture |-> "Pinch", center |-> [x |-> cx, y |-> 100], angle |-> NoLandmarks] :
     cx \in {20, 22, 23}}
ScaleProcess ==
  /\ nCalls.process < MaxHandCalls
  /\ Len(actions) = Len(AppActions)
  /\ \E left \in ScaleLeft, right \in ScaleRight, proj \in Projections :
       process(left, right, proj)
NextScale == Register \/ MgrAdd \/ ScaleProcess
SpecScale == Init /\ [][NextScale]_vars

\* ---- SpecFadeRun: the crossfade with frames that keep running while a
\* transition is under way, and a few frames after it.
FadeRun ==
  /\ sky # Undef
  /\ textureFadeProgress < TEXTURE_FADE_DURATION
  /\ \E d \in FadeDeltas : animate(d)
FadeIdle ==
  /\ sky = Undef \/ textureFadeProgress = TEXTURE_FADE_DURATION
  /\ worldZ < MaxFadeFrames * FORWARD_SPEED
  /\ \E d \in FadeDeltas : animate(d)
NextFadeRun == FadeRun \/ FadeIdle \/ SetSkyAndTerrain
SpecFadeRun == Init /\ [][NextFadeRun]_vars /\ WF_vars(FadeRun)

\* ---- SpecGrow: one object from its creation on, with no other call.
NextGrow == RevealAdd \/ RevealFrame
SpecGrow == Init /\ [][NextGrow]_vars

\* ================================================================ claims
LiveIds == {id \in Ids : objects[id] # Absent}
MeshOf(id) == meshes[objects[id].mesh]
IsFrame == now' # now
Executed(op) ==
  {op.calls[k].action : k \in {j \in DOMAIN op.calls : op.calls[j].fn = "execute"}}
ScaleCalls(op) ==
  {op.calls[k].value : k \in {j \in DOMAIN op.calls :
     /\ op.calls[j].fn = "manipulateObject"
     /\ op.calls[j].action = "scale"}}

\* C1: in every process() call whose input has a left hand, no action bound
\* to the right hand is executed, whatever the right hand shows and whatever
\* calls came before.
C1_NoRightActionWithLeftHand ==
  (lastOp.op = "process" /\ Present(lastOp.left))
    => \A a \in Executed(lastOp) : HandOf(a) # "right"

\* A left hand joins a right hand that orbited the camera in the call before.
C1_LeftAppearsMidGesture ==
  /\ lastOp.op = "process"
  /\ nCalls.process = 2
  /\ Present(lastOp.left)
  /\ Present(lastOp.right) /\ lastOp.right.gesture = "Open Palm"
  /\ yaw # 0

\* C2: for every registry object in every state (so after every frame, under
\* every interleaving with triggerDiffuse, manipulateObject and addObjects):
\* 0 <= currentPoints <= targetPoints, 0 <= draw-range count <= targetPoints
\* and, once removal has begun, 0 <= visiblePoints <= targetPoints.
C2_CountsWithinTarget ==
  \A id \in LiveIds :
    LET o == objects[id] IN
      /\ 0 <= o.currentPoints
      /\ o.currentPoints <= o.targetPoints * MATERIALIZE_DURATION
      /\ 0 <= MeshOf(id).draw
      /\ MeshOf(id).draw <= o.targetPoints
      /\ o.removalStartedAt # Undef =>
           (0 <= o.visiblePoints /\ o.visiblePoints <= o.targetPoints)

\* A fully revealed object one frame into its removal.
C2_RemovingObject ==
  \E id \in LiveIds :
    /\ objects[id].removalStartedAt # Undef
    /\ objects[id].currentPoints = objects[id].targetPoints * MATERIALIZE_DURATION
    /\ objects[id].visiblePoints > 0
    /\ objects[id].visiblePoints < objects[id].targetPoints

\* C3: after any sequence of orbitCamera calls from yaw = pitch = 0, with
\* arguments of any size, yaw is within [-85 deg, 85 deg] and pitch within
\* [-45 deg, 45 deg] (angles in micro-radians, pi = 3.141593).
C3_OrbitWithinLimits ==
  /\ Abs(yaw) * 180 <= 85 * 3141593
  /\ Abs(pitch) * 180 <= 45 * 3141593

\* Oversized requests have driven both angles to their upper limits.
C3_AtUpperLimits == yaw = YAW_MAX /\ pitch = PITCH_MAX

\* C4: every scale factor f that TwoHandPinchScaleAction passes to
\* manipulateObject in a process() call is the ratio of the current to the
\* previous inter-hand distance limited to [0.7, 1.4]; distances 0.2 then 0.3
\* give 1.4.  Distances and f are compared through their squares.
C4_ScaleFactorClamped ==
  [][lastOp'.op = "process" =>
      \A f \in ScaleCalls(lastOp') :
        LET cur == HypotSq(lastOp'.left.center, lastOp'.right.center)
            prev == lastTwoHandDistance
        IN /\ prev > 0 /\ f[2] > 0
           /\ 49 * f[2] <= 100 * f[1] /\ 100 * f[1] <= 196 * f[2]
           /\ IF 100 * cur > 196 * prev THEN 100 * f[1] = 196 * f[2]
              ELSE IF 100 * cur < 49 * prev THEN 100 * f[1] = 49 * f[2]
              ELSE f[1] * prev = cur * f[2]
           /\ (prev = 40 * 40 /\ cur = 60 * 60) => 10 * 10 * f[1] = 14 * 14 * f[2]
    ]_vars

\* The hands went from 0.2 apart to 0.3 apart and the factor applied was 1.4.
C4_RatioOnePointFive ==
  /\ lastOp.op = "process"
  /\ ScaleCalls(lastOp) = {<<196, 100>>}
  /\ HypotSq(lastOp.left.center, lastOp.right.center) = 60 * 60
  /\ \E id \in LiveIds : MeshOf(id).scale = <<196, 100>>

FadeActive ==
  /\ textureFadeProgress < TEXTURE_FADE_DURATION
  /\ (lastSky # Undef \/ lastTerrain # Undef)
PreviousPair == {lastSky, lastTerrain} \ {Undef}
FadeCompletes ==
  /\ textureFadeProgress < TEXTURE_FADE_DURATION
  /\ textureFadeProgress' = TEXTURE_FADE_DURATION

\* C5: while a crossfade is active the opacity of the new pair plus that of
\* the previous pair is 1 in every state (after every frame and directly
\* after setSkyAndTerrain); the pair held as previous stays in the scene and
\* undisposed up to the frame in which the progress reaches 1, is removed,
\* disposed and cleared in that frame, and nothing is disposed or leaves the
\* scene in any other step.
C5_CrossfadeComplementary ==
  /\ [](FadeActive =>
          /\ lastSky # Undef =>
               env[sky].opacity + env[lastSky].opacity = OpacityOne
          /\ lastTerrain # Undef =>
               env[terrain].opacity + env[lastTerrain].opacity = OpacityOne)
  /\ [](textureFadeProgress = TEXTURE_FADE_DURATION => PreviousPair = {})
  /\ [][/\ FadeCompletes =>
             /\ lastSky' = Undef /\ lastTerrain' = Undef
             /\ \A h \in PreviousPair : h \notin envInScene' /\ env'[h].disposed
        /\ ~FadeCompletes =>
             /\ lastSky # Undef => lastSky' # Undef
             /\ lastTerrain # Undef => lastTerrain' # Undef
             /\ \A h \in DOMAIN env :
                  /\ env'[h].disposed = env[h].disposed
                  /\ h \in envInScene => h \in envInScene'
       ]_vars

\* Part way through a crossfade from one pair to the next.
C5_MidFade ==
  /\ FadeActive
  /\ lastSky # Undef /\ lastTerrain # Undef
  /\ textureFadeProgress > 0
  /\ env[sky].opacity > 0
  /\ env[lastSky].opacity < OpacityOne

\* C6: after an addObjects(list) call the registry and the scene hold only
\* objects created from list by that call.
C6_OnlyListedObjectsRemain ==
  [][\A list \in PrimLists :
       \A life \in [1..Len(list) -> PickLifetimes] :
         addObjects(list, life) =>
           /\ \A id \in Ids :
                objects'[id] # Absent =>
                  /\ \E k \in DOMAIN list : list[k].id = id
                  /\ objects'[id].mesh > Len(meshes)
           /\ \A k \in DOMAIN children' : children'[k] > Len(meshes)
    ]_vars

\* C7: a findClosestObjectAtScreenPoint call never returns the id of an
\* object that animate() has deleted and that has not been added since.
C7_DeletedNeverReturned ==
  lastOp.op = "findClosestObjectAtScreenPoint" => lastOp.result \notin removed

\* C8: at most one registry object has the enlarged point size, its id is
\* the selected id, and every other registry object has the default size.
C8_OneHighlight ==
  LET big == {id \in LiveIds : MeshOf(id).size = HighlightSize(POINT_SIZE)}
  IN /\ Cardinality(big) <= 1
     /\ \A id \in big : id = selectedObjectId
     /\ \A id \in LiveIds \ big : MeshOf(id).size = POINT_SIZE

\* C9: findClosestObjectAtScreenPoint returns null when the registry is
\* empty, and otherwise the id of a registry object whose projection is at
\* minimum distance from the target, the first in scene order on ties.
C9_ClosestOfRegistry ==
  lastOp.op = "findClosestObjectAtScreenPoint" =>
    LET d(id) == DistSq(lastOp.proj[objects[id].mesh], lastOp.x, lastOp.y)
        pos(id) == CHOOSE k \in DOMAIN children : children[k] = objects[id].mesh
    IN IF LiveIds = {} THEN lastOp.result = NULL
       ELSE /\ lastOp.result \in LiveIds
            /\ \A other \in LiveIds :
                 \/ d(lastOp.result) < d(other)
                 \/ d(lastOp.result) = d(other) /\ pos(lastOp.result) <= pos(other)

\* C10 as stated: across a frame of an object whose removal has not begun,
\* neither currentPoints nor the draw-range count decreases.
C10_RevealNeverDecreases ==
  [][IsFrame =>
      \A id \in Ids :
        (objects[id] # Absent /\ objects'[id] # Absent
           /\ objects'[id].removalStartedAt = Undef) =>
          /\ objects'[id].currentPoints >= objects[id].currentPoints
          /\ meshes'[objects'[id].mesh].draw >= meshes[objects[id].mesh].draw
    ]_vars

\* C10, amended: across a frame of an object whose removal has not begun,
\* currentPoints never decreases, and the draw-range count never decreases
\* except in the frame that ends the object's diffusion phase, where it
\* becomes floor(0.9 * targetPoints).
C10_RevealDropsOnlyAtDiffusionEnd ==
  [][IsFrame =>
      \A id \in Ids :
        (objects[id] # Absent /\ objects'[id] # Absent
           /\ objects'[id].removalStartedAt = Undef) =>
          /\ objects'[id].currentPoints >= objects[id].currentPoints
          /\ \/ meshes'[objects'[id].mesh].draw >= meshes[objects[id].mesh].draw
             \/ /\ objects[id].diffusionPhaseStartedAt # Undef
                /\ objects'[id].diffusionPhaseStartedAt = Undef
                /\ meshes'[objects'[id].mesh].draw
                     = DiffuseStart(objects[id].targetPoints)
    ]_vars

\* A settled object whose diffusion phase has ended: the tail is hidden.
C10_TailHidden ==
  \E id \in LiveIds :
    /\ objects[id].removalStartedAt = Undef
    /\ objects[id].diffusionPhaseStartedAt = Undef
    /\ objects[id].currentPoints = objects[id].targetPoints * MATERIALIZE_DURATION
    /\ MeshOf(id).draw = DiffuseStart(objects[id].targetPoints)
    /\ MeshOf(id).draw < objects[id].targetPoints

\* C11: a triggerDiffuse(id) call on a registered object, in whatever phase,
\* leaves it with visible count 0, no diffusion state and no removal state
\* (so that the following frames replay the reveal instead of removing it).
C11_RestartClearsAllPhases ==
  [][\A id \in LiveIds :
       callTriggerDiffuse(id) =>
         /\ objects'[id].currentPoints = 0
         /\ meshes'[objects'[id].mesh].draw = 0
         /\ objects'[id].diffusionPhaseStartedAt = Undef
         /\ objects'[id].diffusingStartIndex = Undef
         /\ objects'[id].removalStartedAt = Undef
    ]_vars

\* C12: once an object's diffusion phase has ended (it is settled, its
\* diffusion state is cleared and the tail is hidden), a later frame in which
\* it stays settled and unremoved does not start the phase again, and the
\* tail stays excluded from the rendered range.
C12_DiffusionAtMostOnce ==
  [][IsFrame =>
      \A id \in LiveIds :
        (/\ objects[id].currentPoints
              = objects[id].targetPoints * MATERIALIZE_DURATION
         /\ objects[id].diffusionPhaseStartedAt = Undef
         /\ MeshOf(id).draw < objects[id].targetPoints
         /\ objects[id].removalStartedAt = Undef
         /\ objects'[id] # Absent
         /\ objects'[id].removalStartedAt = Undef) =>
          /\ objects'[id].diffusionPhaseStartedAt = Undef
          /\ meshes'[objects'[id].mesh].draw = MeshOf(id).draw
    ]_vars

\* C13: the scene holds at most one current and one previous sky/terrain
\* pair: every sky or terrain mesh in the scene is the current or the
\* previous one (a pair pushed out by a pre-empting call is discarded).
C13_AtMostTwoPairsInScene ==
  envInScene \subseteq {sky, terrain, lastSky, lastTerrain}

\* C14: a geometry load started by an addObjects call that a later
\* addObjects call has superseded commits nothing when it resolves: the
\* registry and the scene's object group are unchanged.
C14_SupersededLoadCommitsNothing ==
  [][\A i \in DOMAIN pending :
       \A count \in PlyCounts, lifetime \in Lifetimes :
         (pending[i].stale /\ loadResolves(i, count, lifetime)) =>
           /\ objects' = objects
           /\ children' = children
           /\ meshes' = meshes
    ]_vars

\* C15: when the PLY load of one object of an addObjects(list) call rejects,
\* that object is not added, the loads of the other objects of the list stay
\* in flight and add their objects when they succeed, and the addObjects
\* call does not raise an error to its caller.
C15_FailedLoadIsDroppedSilently ==
  [][/\ \A i \in DOMAIN pending :
          loadRejects(i) =>
            /\ objects' = objects /\ meshes' = meshes /\ children' = children
            /\ pending' = Without(pending, i)
            /\ addPromise' # "rejected"
     /\ \A i \in DOMAIN pending :
          \A count \in PlyCounts \ {0}, lifetime \in Lifetimes :
            (~pending[i].stale /\ loadResolves(i, count, lifetime)) =>
              /\ objects'[pending[i].data.id] # Absent
              /\ \E k \in DOMAIN children' :
                   children'[k] = objects'[pending[i].data.id].mesh
    ]_vars

\* the centres a hand can have had before it went away
LeftCentres == {h.center : h \in LeftHands \ {NoHand}}
Recorded(c) == c # [x |-> 0, y |-> 0]

\* C16: when a hand that was absent from the previous process() call is
\* present again, the calls process() makes for it are the same whatever
\* centre was recorded for that hand before the absence.
C16_NoStaleCentreOnReappearance ==
  [][\A left \in ComingLeft, right \in ComingRight, proj \in Projections :
       (process(left, right, proj) /\ lastOp.op = "process") =>
         /\ (Present(right) /\ ~Present(lastOp.right) /\ Recorded(lastRight)) =>
              \A c \in RightCentres :
                Dispatch(left, right, proj, lastLeft, c).calls = lastOp'.calls
         /\ (Present(left) /\ ~Present(lastOp.left) /\ Recorded(lastLeft)) =>
              \A c \in LeftCentres :
                Dispatch(left, right, proj, c, lastRight).calls = lastOp'.calls
    ]_vars

Registered == {actions[k] : k \in DOMAIN actions}
NoDuplicates(seq) == \A j, k \in DOMAIN seq : seq[j] = seq[k] => j = k

\* C17: under register, unregister and clear the action list never holds an
\* instance twice; register of a present instance changes nothing and of a
\* new one appends it; unregister removes the instance if present and
\* changes nothing otherwise; clear empties the list.
C17_RegistryHasNoDuplicates ==
  [][/\ NoDuplicates(actions')
     /\ \A a \in Instances :
          /\ register(a) =>
               IF a \in Registered THEN actions' = actions
               ELSE /\ Len(actions') = Len(actions) + 1
                    /\ actions'[Len(actions')] = a
                    /\ SubSeq(actions', 1, Len(actions)) = actions
          /\ unregister(a) =>
               IF a \notin Registered THEN actions' = actions
               ELSE /\ Len(actions') = Len(actions) - 1
                    /\ \A k \in DOMAIN actions' : actions'[k] # a
                    /\ \A x \in Registered \ {a} :
                         \E k \in DOMAIN actions' : actions'[k] = x
     /\ clear => Len(actions') = 0
    ]_vars
\* an instance was unregistered from a list that keeps a later one
C17_UnregisteredFirstOfTwo ==
  /\ lastOp = [op |-> "unregister", action |-> AppActions[1]]
  /\ actions = <<AppActions[2]>>

\* C18: one orbitCamera call changes yaw and pitch by at most 0.04 rad each,
\* one dollyCamera call, direct or issued by DollyCameraAction with
\* 30 * delta.y, moves the rig by at most 0.15; the new yaw and pitch are the
\* range limit of the old angle plus the rate-limited request.  Under
\* SpecCamera the steps that leave nCalls alone are the orbitCamera calls and
\* the others are the dollyCamera calls.
C18_PerCallRateLimits ==
  [][LET Rate(v) == IF v > 40000 THEN 40000 ELSE IF v < -40000 THEN -40000 ELSE v
         Range(v, lo, hi) == IF v > hi THEN hi ELSE IF v < lo THEN lo ELSE v
         Move(d) == IF d > 150000 THEN 150000
                    ELSE IF d < -150000 THEN -150000 ELSE d
     IN /\ Abs(yaw' - yaw) <= 40000
        /\ Abs(pitch' - pitch) <= 40000
        /\ Abs(dolly' - dolly) <= 150000
        /\ IF nCalls' = nCalls
           THEN \E a \in OrbitArgs :
                  /\ yaw' = Range(yaw + Rate(a[1]), YAW_MIN, YAW_MAX)
                  /\ pitch' = Range(pitch + Rate(a[2]), PITCH_MIN, PITCH_MAX)
                  /\ dolly' = dolly
           ELSE /\ \/ \E d \in DollyArgs : dolly' - dolly = Move(d)
                   \/ \E dy \in DollyDeltas :
                        dolly' - dolly = Move(dy * 30 * PerCentre)
                /\ yaw' = yaw /\ pitch' = pitch
    ]_vars
\* requests of 2 rad and of 0.9 have each moved the rig by one limit only
C18_OversizedRequestsLimited ==
  yaw = 40000 /\ pitch = 40000 /\ dolly = -150000

\* the fields of a mesh other than those of F are the same in m and n
SameExcept(m, n, F) == \A f \in (DOMAIN m) \ F : m[f] = n[f]

\* C19: manipulateObject(id, kind, value) with an id not in the registry
\* changes nothing; with a registered id it changes only that object's mesh
\* and only the attribute of the kind: translate adds value.x, value.y to
\* x, y; rotate adds value to rotation y; scale multiplies the scale by value.
C19_ManipulateChangesOneAttribute ==
  [][\A id \in Ids, in \in ManipKinds :
       callManipulate(id, in) =>
         /\ objects' = objects
         /\ selectedObjectId' = selectedObjectId
         /\ children' = children
         /\ Len(meshes') = Len(meshes)
         /\ IF objects[id] = Absent THEN meshes' = meshes
            ELSE LET h == objects[id].mesh
                     m == meshes[h]
                     n == meshes'[h]
                 IN /\ \A k \in DOMAIN meshes : k # h => meshes'[k] = meshes[k]
                    /\ in[1] = "translate" =>
                         /\ n.x = m.x + in[2].x /\ n.y = m.y + in[2].y
                         /\ SameExcept(m, n, {"x", "y"})
                    /\ in[1] = "rotate" =>
                         /\ n.rotY = m.rotY + in[2]
                         /\ SameExcept(m, n, {"rotY"})
                    /\ in[1] = "scale" =>
                         /\ n.scale[1] * m.scale[2] * in[2][2]
                              = m.scale[1] * in[2][1] * n.scale[2]
                         /\ SameExcept(m, n, {"scale"})
    ]_vars
\* of two objects, "b" alone has been translated by (2, -1)
C19_TranslatedOneOfTwo ==
  /\ LiveIds = Ids
  /\ MeshOf("b").x = PosOf("b")[1] + 2 /\ MeshOf("b").y = PosOf("b")[2] - 1
  /\ MeshOf("a").x = PosOf("a")[1] /\ MeshOf("a").y = PosOf("a")[2]

\* C20: when the PLY source of an object loads with zero points,
\* createPointCloudObject adds nothing: the registry, the object group and
\* the meshes are the same after the load as before it, and the load raises
\* no error to the caller of addObjects.
C20_EmptyCloudAddsNothing ==
  [][\A i \in DOMAIN pending, lifetime \in Lifetimes :
       loadResolves(i, 0, lifetime) =>
         /\ objects' = objects
         /\ children' = children
         /\ meshes' = meshes
         /\ selectedObjectId' = selectedObjectId
         /\ addPromise' = "rejected" => addPromise = "rejected"
    ]_vars
\* the only load of an addObjects call has resolved with zero points
C20_EmptyLoadSettled ==
  /\ lastOp = [op |-> "loadResolves", id |-> "a", count |-> 0]
  /\ addPromise = "fulfilled"
  /\ objects["a"] = Absent

C22_OrbitFollowsRightPalm ==
  [][\A right \in NavRight \ {NoHand}, proj \in Projections :
       (/\ lastOp.op = "process"
        /\ Present(lastOp.right)
        /\ right.gesture = "Open Palm"
        /\ actions = <<"OrbitCameraAction", "DollyCameraAction">>
        /\ process(NoHand, right, proj)) =>
         LET dx == right.center.x - lastOp.right.center.x
             dy == right.center.y - lastOp.right.center.y
             \* radians * 10^6 of -4 * d, d in units of 1/200
             Req(d) == (0 - 4) * d * 5000
             Rate(v) == IF v > 40000 THEN 40000 ELSE IF v < -40000 THEN -40000 ELSE v
             Range(v, lo, hi) == IF v > hi THEN hi ELSE IF v < lo THEN lo ELSE v
         IN /\ \E k \in DOMAIN lastOp'.calls :
                 lastOp'.calls[k] = [fn |-> "orbitCamera", yaw |-> Req(dx),
                                     pitch |-> Req(dy)]
            /\ yaw' = Range(yaw + Rate(Req(dx)), YAW_MIN, YAW_MAX)
            /\ pitch' = Range(pitch + Rate(Req(dy)), PITCH_MIN, PITCH_MAX)
            /\ (dx = 20 /\ dy = 0) => (yaw' = yaw - 40000 /\ pitch' = pitch)
    ]_vars
\* the palm has moved from (0.5, 0.5) to (0.6, 0.5) between two calls
C22_PalmMovedRight ==
  /\ lastOp.op = "process"
  /\ lastOp.right = [gesture |-> "Open Palm", center |-> [x |-> 120, y |-> 100],
                     angle |-> NoLandmarks]
  /\ actions = <<"OrbitCameraAction", "DollyCameraAction">>
  /\ yaw = -80000 /\ pitch = -40000

C25_SelectionBeforeActions ==
  [][lastOp'.op = "process" =>
       LET calls == lastOp'.calls
           left == lastOp'.left
       IN /\ calls[1].fn = "setSelectedObjectId"
          /\ \A k \in DOMAIN calls :
               /\ (k > 1) => calls[k].fn # "setSelectedObjectId"
               /\ calls[k].fn = "manipulateObject" => calls[k].id = calls[1].id
          /\ selectedObjectId' = calls[1].id
          /\ IF Present(left)
             THEN \E proj \in Projections :
                    calls[1].id = findClosestObjectAtScreenPoint(
                                    Rd, proj, left.center.x, left.center.y)
             ELSE calls[1].id = NULL
    ]_vars
\* the first call, with a left Pinch, translated the object it selected
C25_FirstCallMovesNewSelection ==
  /\ lastOp.op = "process"
  /\ nCalls.process = 1
  /\ lastOp.left # NoHand /\ lastOp.left.gesture = "Pinch"
  /\ lastOp.calls[1] = [fn |-> "setSelectedObjectId", id |-> "a"]
  /\ \E k \in DOMAIN lastOp.calls :
       lastOp.calls[k].fn = "manipulateObject" /\ lastOp.calls[k].id = "a"

BothHands(op) == Present(op.left) /\ Present(op.right)

\* C26: after a process() call with fewer than two hands the stored
\* inter-hand distance is 0 and after a call with both hands it is the
\* distance of that call (kept as its square); so in the very first call and
\* in the first call with both hands after a call with fewer,
\* TwoHandPinchScaleAction scales nothing, also when both hands pinch.
C26_TwoHandDistanceResetOnLoss ==
  /\ [](lastOp.op = "process" =>
          IF BothHands(lastOp)
          THEN lastTwoHandDistance =
                 (lastOp.right.center.x - lastOp.left.center.x)
                   * (lastOp.right.center.x - lastOp.left.center.x)
                 + (lastOp.right.center.y - lastOp.left.center.y)
                   * (lastOp.right.center.y - lastOp.left.center.y)
          ELSE lastTwoHandDistance = 0)
  /\ [][(/\ lastOp'.op = "process"
          /\ BothHands(lastOp')
          /\ (lastOp.op = "process" => ~BothHands(lastOp))) =>
           /\ ScaleCalls(lastOp') = {}
           /\ \A h \in DOMAIN meshes : meshes'[h].scale = meshes[h].scale
       ]_vars
\* both hands pinch in the call that follows a call with one hand
C26_PinchAfterLoss ==
  /\ lastOp.op = "process"
  /\ nCalls.process = 2
  /\ BothHands(lastOp)
  /\ lastOp.left.gesture = "Pinch" /\ lastOp.right.gesture = "Pinch"
  /\ "TwoHandPinchScaleAction" \in Executed(lastOp)
  /\ ScaleCalls(lastOp) = {}
  /\ LiveIds # {}

\* C27: after every process() call with a right hand the stored previous
\* right centre is that hand's centre, whether or not right-hand actions
\* ran; so in the first call after the left hand has gone, the right hand
\* being there in both calls, the right-hand actions get the movement since
\* the preceding call: OrbitCameraAction requests -4 times that movement.
C27_RightCentreAlwaysStored ==
  /\ [](lastOp.op = "process" /\ Present(lastOp.right) =>
          lastRight = lastOp.right.center)
  /\ [][(/\ lastOp.op = "process" /\ BothHands(lastOp)
          /\ lastOp'.op = "process"
          /\ ~Present(lastOp'.left) /\ Present(lastOp'.right)
          /\ lastOp'.right.gesture = "Open Palm") =>
           \E k \in DOMAIN lastOp'.calls :
             lastOp'.calls[k] =
               [fn |-> "orbitCamera",
                yaw |-> (0 - 4) * (lastOp'.right.center.x - lastOp.right.center.x) * 5000,
                pitch |-> (0 - 4) * (lastOp'.right.center.y - lastOp.right.center.y) * 5000]
       ]_vars
\* the left hand has gone and the palm moved from (0.3, 0.5) to (0.4, 0.5):
\* yaw turned by one step and pitch by none
C27_NavigationResumes ==
  /\ lastOp.op = "process"
  /\ nCalls.process = 2
  /\ ~Present(lastOp.left) /\ lastLeft # [x |-> 0, y |-> 0]
  /\ lastOp.right = [gesture |-> "Open Palm", center |-> [x |-> 80, y |-> 100],
                     angle |-> NoLandmarks]
  /\ yaw = -40000 /\ pitch = 0

\* C28: in a process() call a registered single-hand action is executed
\* exactly when its hand slot is processed (left: a left hand is present;
\* right: a right hand and no left hand) and its gesture equals that hand's
\* gesture; the matching actions are executed once each, in registration
\* order, and a hand labelled Unknown executes none.
SingleHandExecutions(op) ==
  LET IsSingle(c) == c.fn = "execute" /\ HandOf(c.action) # "both"
      es == SelectSeq(op.calls, IsSingle)
  IN [k \in 1..Len(es) |-> es[k].action]
MatchesSlot(a, op) ==
  \/ /\ HandOf(a) = "left" /\ Present(op.left)
     /\ GestureOf(a) = op.left.gesture
  \/ /\ HandOf(a) = "right" /\ Present(op.right) /\ ~Present(op.left)
     /\ GestureOf(a) = op.right.gesture
C28_MatchingActionsRunOnceInOrder ==
  lastOp.op = "process" =>
    LET Matching(a) == MatchesSlot(a, lastOp)
    IN SingleHandExecutions(lastOp) = SelectSeq(actions, Matching)
\* two OrbitCameraAction objects registered around a DollyCameraAction both
\* ran for a right Open Palm, the later-made one first
C28_TwoOrbitsInOrder ==
  /\ lastOp.op = "process"
  /\ ~Present(lastOp.left)
  /\ Present(lastOp.right) /\ lastOp.right.gesture = "Open Palm"
  /\ actions = <<"secondOrbitCameraAction", "DollyCameraAction", "OrbitCameraAction">>
  /\ SingleHandExecutions(lastOp) = <<"secondOrbitCameraAction", "OrbitCameraAction">>

RotateCalls(op) ==
  {op.calls[k].value : k \in {j \in DOMAIN op.calls :
     /\ op.calls[j].fn = "manipulateObject"
     /\ op.calls[j].action = "rotate"}}
\* An earlier process() call stored a pointing angle: the field starts at 0
\* and no pose of LeftPoses points at 0 degrees.
AngleRecorded == lastLeftAngle # 0

\* C29: a process() call rotates the selected object only if an earlier call
\* with a left hand recorded a pointing angle; with none recorded a left Fist
\* applies no rotation, and otherwise a left Fist with landmarks on a
\* selected object applies 2 times the wrapped difference between the
\* current and the recorded angle.
C29_RotationNeedsRecordedAngle ==
  [][lastOp'.op = "process" =>
       /\ ~AngleRecorded => RotateCalls(lastOp') = {}
       /\ (/\ AngleRecorded
           /\ Present(lastOp'.left) /\ lastOp'.left.gesture = "Fist"
           /\ lastOp'.left.angle # NoLandmarks
           /\ selectedObjectId' # NULL) =>
            RotateCalls(lastOp') = {2 * WrapAngle(lastOp'.left.angle - lastLeftAngle)}
    ]_vars

\* max(1, ceil(0.003 * target)) written out
PerFrame(target) ==
  LET c == CHOOSE n \in 0..target : 1000 * n >= 3 * target /\ 1000 * (n - 1) < 3 * target
  IN IF c >= 1 THEN c ELSE 1
\* the count rendered for entry o in the frame that ends at now', before the
\* removal block
RenderedThisFrame(o) ==
  Diffuse(Materialize([o |-> o, draw |-> meshes[o.mesh].draw,
                       points |-> meshes[o.mesh].points], now' - now), now').draw

FramesLeft(o) ==
  (o.visiblePoints + PerFrame(o.targetPoints) - 1) \div PerFrame(o.targetPoints)

Settled(o) == o.currentPoints >= o.targetPoints * MATERIALIZE_DURATION
Diffusing(o) == o.diffusionPhaseStartedAt # Undef
Removing(o) == o.removalStartedAt # Undef

\* C32: the diffusion state of an object is set only in a frame after which
\* it is settled (currentPoints >= targetPoints); removal begins in the first
\* frame with age >= lifetime, whatever the phase, and in no other step, and
\* is not left again; an entry leaves the registry only in a frame, when its
\* removal has begun; an id enters the registry only by addObjects.
C32_PhasesInOrder ==
  [][\A id \in Ids :
       LET o == objects[id]
           n == objects'[id]
           added == lastOp'.op \in {"addObjects", "loadResolves"}
       IN /\ (o = Absent /\ n # Absent) => added
          /\ (o # Absent /\ ~added) =>
               LET due == IsFrame /\ now' - o.loadedAt >= o.lifetime
               IN /\ n = Absent => IsFrame /\ (Removing(o) \/ due)
                  /\ due => (n = Absent \/ Removing(n))
                  /\ n # Absent =>
                       /\ (Diffusing(n) /\ n.diffusionPhaseStartedAt # o.diffusionPhaseStartedAt)
                            => IsFrame /\ Settled(n)
                       /\ (Removing(n) /\ ~Removing(o)) => due
                       /\ Removing(o) => n.removalStartedAt = o.removalStartedAt
    ]_vars
\* removal has just begun for an object that a restart left half revealed
C32_RemovingWhileMaterializing ==
  /\ objects["a"] # Absent
  /\ objects["a"].removalStartedAt = now
  /\ objects["a"].currentPoints > 0
  /\ ~Settled(objects["a"])
  /\ ~Diffusing(objects["a"])

\* C33: in a process() call with a left Pinch, PinchTranslateAction moves
\* the object selected in that call by (100 * dx, -100 * dy), (dx, dy) being
\* the change of the left centre since the centre recorded before; no other
\* object changes, and nothing changes when no object is selected. Positions
\* are in half units and centres in 1/200 of the screen.
C33_PinchTranslatesSelection ==
  [][(/\ lastOp'.op = "process"
      /\ Present(lastOp'.left) /\ lastOp'.left.gesture = "Pinch") =>
       LET id == selectedObjectId'
           dx == lastOp'.left.center.x - lastLeft.x
           dy == lastOp'.left.center.y - lastLeft.y
       IN /\ Len(meshes') = Len(meshes)
          /\ IF id = NULL THEN meshes' = meshes
             ELSE LET h == objects[id].mesh
                      m == meshes[h]
                      n == meshes'[h]
                  IN /\ (n.x - m.x) * 200 = 2 * 100 * dx
                     /\ (n.y - m.y) * 200 = 2 * (0 - 100) * dy
                     /\ SameExcept(m, n, {"x", "y", "size"})
                     /\ \A k \in DOMAIN meshes : k # h =>
                          SameExcept(meshes[k], meshes'[k], {"size"})
    ]_vars
\* after an Open Palm at (0.10, 0.50) the left hand pinches at (0.12, 0.49)
\* over "b": "b" has moved by (2, 1) world units and "a" has not moved
C33_PinchedObjectMoved ==
  /\ lastOp.op = "process"
  /\ nCalls.process = 2
  /\ Present(lastOp.left) /\ lastOp.left.gesture = "Pinch"
  /\ lastOp.left.center = [x |-> 24, y |-> 98]
  /\ selectedObjectId = "b"
  /\ MeshOf("b").x = PosOf("b")[1] + 4 /\ MeshOf("b").y = PosOf("b")[2] + 2
  /\ MeshOf("a").x = PosOf("a")[1] /\ MeshOf("a").y = PosOf("a")[2]

C35_ScrollKeepsCoordinatesBounded ==
  /\ \A k \in DOMAIN children :
       LET m == meshes[children[k]]
       IN /\ worldZ + m.z > WORLD_Z_RESPAWN - OBJECT_Z_WRAP
          /\ worldZ + m.z <= WORLD_Z_RESPAWN
          /\ m.z >= PosOf(m.id)[3] - OBJECT_Z_WRAP
  /\ worldZ <= OBJECT_Z_WRAP

\* C36: after any sequence of addObjects calls and frames the meshes of the
\* object group and the registry entries correspond one to one: every mesh of
\* the group carries an id that is a registry key mapped to that mesh, every
\* registry entry's mesh is in the group, and every id returned by
\* findClosestObjectAtScreenPoint is a registry key.
C36_SceneMatchesRegistry ==
  /\ \A k \in DOMAIN children :
       LET h == children[k]
       IN /\ objects[meshes[h].id] # Absent
          /\ objects[meshes[h].id].mesh = h
  /\ \A id \in LiveIds : \E k \in DOMAIN children : children[k] = objects[id].mesh
  /\ \A j, k \in DOMAIN children : children[j] = children[k] => j = k
  /\ (lastOp.op = "findClosestObjectAtScreenPoint" /\ lastOp.result # NULL) =>
       lastOp.result \in LiveIds

C38_FadeRunsToCompletion ==
  /\ [](textureFadeProgress >= 0 /\ textureFadeProgress <= TEXTURE_FADE_DURATION)
  /\ [][sky' = sky => textureFadeProgress' >= textureFadeProgress]_vars
  /\ (sky # Undef) ~> (textureFadeProgress = TEXTURE_FADE_DURATION)
  /\ []((sky # Undef /\ textureFadeProgress = TEXTURE_FADE_DURATION) =>
          /\ env[sky].opacity = OpacityOne /\ env[terrain].opacity = OpacityOne
          /\ lastSky = Undef /\ lastTerrain = Undef
          /\ envInScene = {sky, terrain})
  /\ [][(textureFadeProgress = TEXTURE_FADE_DURATION /\ sky' = sky) => env' = env]_vars

\* ---- C39
\* the meshes of the scene apart from the point size, which carries the
\* highlight of the selection
WithoutHighlight(ms) == [k \in DOMAIN ms |-> [ms[k] EXCEPT !.size = POINT_SIZE]]
NoHandsCall ==
  /\ nCalls'.process = nCalls.process + 1
  /\ lastOp'.op = "process"
  /\ lastOp'.left = NoHand /\ lastOp'.right = NoHand

\* C39: a process() call with no hands executes no action and leaves the
\* action list, the previous left centre, the previous right centre and the
\* previous left pointing angle as they were; it sets the stored inter-hand
\* distance to 0 and the renderer's selection to null (the highlight of the
\* deselected object goes with it) and changes nothing else.
C39_NoHandsOnlyDeselects ==
  [][NoHandsCall =>
       /\ lastOp'.calls = <<[fn |-> "setSelectedObjectId", id |-> NULL]>>
       /\ actions' = actions
       /\ lastLeft' = lastLeft /\ lastRight' = lastRight
       /\ lastLeftAngle' = lastLeftAngle
       /\ lastTwoHandDistance' = 0
       /\ selectedObjectId' = NULL
       /\ objects' = objects /\ children' = children
       /\ yaw' = yaw /\ pitch' = pitch /\ dolly' = dolly
       /\ WithoutHighlight(meshes') = WithoutHighlight(meshes)
       /\ \A k \in DOMAIN meshes' : meshes'[k].size = POINT_SIZE
       /\ UNCHANGED <<worldZ, now, sky, terrain, lastSky, lastTerrain, env,
                      envInScene, textureFadeProgress, pending, addPromise>>
  ]_vars

\* both hands were seen, the left one with landmarks, and then no hand
C39_HandsGone ==
  /\ lastOp.op = "process"
  /\ lastOp.left = NoHand /\ lastOp.right = NoHand
  /\ lastLeft # [x |-> 0, y |-> 0] /\ lastRight # [x |-> 0, y |-> 0]
  /\ lastLeftAngle # 0
  /\ meshes # <<>>
  /\ lastTwoHandDistance = 0 /\ selectedObjectId = NULL


\* ---- C40
\* no centre has been recorded for the hand: the stored centre is the one
\* the constructor set (no hand of SpecLeft is centred on the screen corner)
NeverSeen(last) == last = [x |-> 0, y |-> 0]

\* C40: in the first process() call in which a hand is present the delta
\* handed to its actions is (0, 0): a right Open Palm or Fist seen for the
\* first time leaves the camera rig where it was, and a left Pinch seen for
\* the first time leaves every object where it was.
C40_FirstSightMovesNothing ==
  [][(/\ lastOp'.op = "process"
      /\ nCalls'.process = nCalls.process + 1) =>
       LET left == lastOp'.left
           right == lastOp'.right
       IN /\ (/\ RunsRight(left, right) /\ NeverSeen(lastRight)
              /\ right.gesture \in {"Open Palm", "Fist"}) =>
                (yaw' = yaw /\ pitch' = pitch /\ dolly' = dolly)
          /\ (/\ Present(left) /\ NeverSeen(lastLeft)
              /\ left.gesture = "Pinch") =>
                /\ Len(meshes') = Len(meshes)
                /\ \A h \in DOMAIN meshes :
                     SameExcept(meshes[h], meshes'[h], {"size"})
    ]_vars

====
